---- MODULE Spec2Model ----
(***************************************************************************)
(* A model of tikz_mcp_server.py: the render_tikz tool handler and the     *)
(* compile-and-diagnose pipeline TikZMCPServer.compile_tikz_to_image.      *)
(*                                                                         *)
(* Strings.  A Python str without a newline (a "line") is the sequence of  *)
(* its characters, each a one-character string.  A str in general (a       *)
(* "text") is the non-empty sequence of lines that str.split('\n') gives:  *)
(* '' is << <<>> >>, 'a\n' is << <<"a">>, <<>> >>.                          *)
(***************************************************************************)
EXTENDS Integers, Sequences, FiniteSets, TLC

\* ------------------------------------------------------------------------
\* Bounds of the model
\* ------------------------------------------------------------------------

\* Requests the server handles, one after the other.
NumRuns == 1

\* Names tempfile may give a scratch directory.
NumDirs == 2

\* calls of the handler that overlap
NumConc == 2

\* Longest markup, in lines, enumerated over MarkupVocabulary.
MaxMarkup == 2

\* Longest log enumerated line by line over LogVocabulary.
MaxShort == 3

\* Longest run of generated lines inside a long log.
MaxRun == 51

\* Lines of the longest standard-error text.
MaxStderr == 21

Runs == 1..NumRuns

Dirs == 1..NumDirs

\* ------------------------------------------------------------------------
\* Python str operations
\* ------------------------------------------------------------------------

EmptyText == << <<>> >>

\* bool(s) of a str
StrTruthy(t) == t # EmptyText

\* s + t
TextCat(s, t) ==
  SubSeq(s, 1, Len(s) - 1) \o << s[Len(s)] \o t[1] >> \o SubSeq(t, 2, Len(t))

\* '\n'.join(ls) for a list of lines
Join(ls) == IF ls = <<>> THEN EmptyText ELSE ls

\* s.split('\n')
Split(t) == t

Whitespace == {" ", "\t", "\r"}

RECURSIVE LStrip(_)
LStrip(s) ==
  IF s # <<>> /\ Head(s) \in Whitespace THEN LStrip(Tail(s)) ELSE s

RECURSIVE RStrip(_)
RStrip(s) ==
  IF s # <<>> /\ s[Len(s)] \in Whitespace
  THEN RStrip(SubSeq(s, 1, Len(s) - 1))
  ELSE s

\* s.strip()
Strip(s) == RStrip(LStrip(s))

UpperAlphabet ==
  <<"A","B","C","D","E","F","G","H","I","J","K","L","M",
    "N","O","P","Q","R","S","T","U","V","W","X","Y","Z">>

LowerAlphabet ==
  <<"a","b","c","d","e","f","g","h","i","j","k","l","m",
    "n","o","p","q","r","s","t","u","v","w","x","y","z">>

LowerChar(c) ==
  IF \E k \in 1..Len(UpperAlphabet) : UpperAlphabet[k] = c
  THEN LowerAlphabet[CHOOSE k \in 1..Len(UpperAlphabet) : UpperAlphabet[k] = c]
  ELSE c

\* s.lower()
Lower(s) == [k \in 1..Len(s) |-> LowerChar(s[k])]

\* s.startswith(p)
StartsWith(s, p) == Len(s) >= Len(p) /\ SubSeq(s, 1, Len(p)) = p

\* p in s, for a line s
Contains(s, p) ==
  \E k \in 0..(Len(s) - Len(p)) : SubSeq(s, k + 1, k + Len(p)) = p

\* p in t, for a text t and a p without newline
TextContains(t, p) == \E n \in 1..Len(t) : Contains(t[n], p)

\* ------------------------------------------------------------------------
\* String constants of the program
\* ------------------------------------------------------------------------

DocumentClass ==
  <<"\\","d","o","c","u","m","e","n","t","c","l","a","s","s">>

TemplatePrefix ==
  << <<"\\","d","o","c","u","m","e","n","t","c","l","a","s","s","[","b","o","r","d","e","r","=","2","p","t","]","{","s","t","a","n","d","a","l","o","n","e","}">>,
     <<"\\","u","s","e","p","a","c","k","a","g","e","{","t","i","k","z","}">>,
     <<"\\","u","s","e","p","a","c","k","a","g","e","{","p","g","f","p","l","o","t","s","}">>,
     <<"\\","u","s","e","p","a","c","k","a","g","e","{","a","m","s","m","a","t","h","}">>,
     <<"\\","u","s","e","p","a","c","k","a","g","e","{","a","m","s","s","y","m","b","}">>,
     <<"\\","u","s","e","p","a","c","k","a","g","e","{","x","c","o","l","o","r","}">>,
     <<"\\","u","s","e","t","i","k","z","l","i","b","r","a","r","y","{","s","h","a","p","e","s",",","a","r","r","o","w","s",",","p","o","s","i","t","i","o","n","i","n","g",",","c","a","l","c",",","d","e","c","o","r","a","t","i","o","n","s",".","p","a","t","h","r","e","p","l","a","c","i","n","g",",","p","a","t","t","e","r","n","s",",","f","i","t",",","b","a","c","k","g","r","o","u","n","d","s",",","m","i","n","d","m","a","p",",","t","r","e","e","s",",","a","r","r","o","w","s",".","m","e","t","a",",","a","n","g","l","e","s",",","q","u","o","t","e","s","}">>,
     <<"\\","p","g","f","p","l","o","t","s","s","e","t","{","c","o","m","p","a","t","=","1",".","1","8","}">>,
     <<>>,
     <<"\\","b","e","g","i","n","{","d","o","c","u","m","e","n","t","}">>,
     <<>> >>

TemplateSuffix ==
  << <<>>,
     <<"\\","e","n","d","{","d","o","c","u","m","e","n","t","}">>,
     <<>> >>

MsgPdflatexMissing ==
  << <<"p","d","f","l","a","t","e","x"," ","n","o","t"," ","f","o","u","n","d","."," ","P","l","e","a","s","e"," ","i","n","s","t","a","l","l"," ","T","e","X"," ","L","i","v","e"," ","o","r"," ","M","i","K","T","e","X",".">> >>

MsgConvertMissing ==
  << <<"I","m","a","g","e","M","a","g","i","c","k"," ","c","o","n","v","e","r","t"," ","n","o","t"," ","f","o","u","n","d","."," ","P","l","e","a","s","e"," ","i","n","s","t","a","l","l"," ","I","m","a","g","e","M","a","g","i","c","k",".">> >>

MsgCompileFailed ==
  << <<"L","a","T","e","X"," ","c","o","m","p","i","l","a","t","i","o","n"," ","f","a","i","l","e","d",":">>,
     <<>>,
     <<>> >>

MsgUnknownError ==
  << <<"L","a","T","e","X"," ","c","o","m","p","i","l","a","t","i","o","n"," ","f","a","i","l","e","d"," ","w","i","t","h"," ","u","n","k","n","o","w","n"," ","e","r","r","o","r">> >>

MsgNoLog ==
  << <<"L","a","T","e","X"," ","c","o","m","p","i","l","a","t","i","o","n"," ","f","a","i","l","e","d"," ","-"," ","n","o"," ","l","o","g"," ","f","i","l","e"," ","g","e","n","e","r","a","t","e","d">> >>

MsgNoPdf ==
  << <<"P","D","F"," ","f","i","l","e"," ","w","a","s"," ","n","o","t"," ","g","e","n","e","r","a","t","e","d">> >>

MsgConvertFailed ==
  << <<"I","m","a","g","e"," ","c","o","n","v","e","r","s","i","o","n"," ","f","a","i","l","e","d",":"," ">> >>

MsgNoPng ==
  << <<"P","N","G"," ","f","i","l","e"," ","w","a","s"," ","n","o","t"," ","g","e","n","e","r","a","t","e","d">> >>

MsgValidation ==
  << <<"E","r","r","o","r",":"," ","V","a","l","i","d"," ","T","i","k","Z"," ","c","o","d","e"," ","i","s"," ","r","e","q","u","i","r","e","d">> >>

MsgRendered ==
  << <<"T","i","k","Z"," ","d","i","a","g","r","a","m"," ","r","e","n","d","e","r","e","d"," ","s","u","c","c","e","s","s","f","u","l","l","y">> >>

MsgCompilationError ==
  << <<"C","o","m","p","i","l","a","t","i","o","n"," ","E","r","r","o","r",":"," ">> >>

MsgUnknownTool ==
  << <<"U","n","k","n","o","w","n"," ","t","o","o","l",":"," ">> >>

MsgAvailableTools ==
  << <<"."," ","A","v","a","i","l","a","b","l","e"," ","t","o","o","l","s",":"," ","r","e","n","d","e","r","_","t","i","k","z">> >>

Separator ==
  <<"-","-","-"," ","E","r","r","o","r"," ","D","e","t","a","i","l","s"," ","-","-","-">>

KwBang ==
  <<"!"," ">>

KwError ==
  <<"e","r","r","o","r",":">>

KwUndefined ==
  <<"u","n","d","e","f","i","n","e","d">>

KwMissing ==
  <<"m","i","s","s","i","n","g">>

Keywords ==
  {KwBang, KwError, KwUndefined, KwMissing}

LineNumberToken ==
  <<"l",".">>

WordLine ==
  <<"l","i","n","e">>

Backslash ==
  <<"\\">>

PointChars ==
  {"^", "?"}
\* str() of the OSError a failed file operation raises
MsgNoSpace ==
  << <<"[","E","r","r","n","o"," ","2","8","]"," ","N","o"," ","s","p","a","c","e"," ","l","e","f","t"," ","o","n"," ","d","e","v","i","c","e">> >>

\* str() of the FileExistsError tempfile raises when every name is taken
MsgNoTempName ==
  << <<"[","E","r","r","n","o"," ","1","7","]"," ","N","o"," ","u","s","a","b","l","e"," ","t","e","m","p","o","r","a","r","y"," ","d","i","r","e","c","t","o","r","y"," ","n","a","m","e"," ","f","o","u","n","d">> >>

\* str() of the CalledProcessError of a failed conversion (argument list abbreviated)
MsgCalledProcessError ==
  << <<"C","o","m","m","a","n","d"," ","'","c","o","n","v","e","r","t","'"," ","r","e","t","u","r","n","e","d"," ","n","o","n","-","z","e","r","o"," ","e","x","i","t"," ","s","t","a","t","u","s"," ","1",".">> >>

RenderTikz ==
  << <<"r","e","n","d","e","r","_","t","i","k","z">> >>

OtherTool ==
  << <<"p","l","o","t">> >>

\* content of a produced diagram.pdf
PdfBytes ==
  << <<"%","P","D","F">> >>

\* content of a produced diagram.png
PngBytes ==
  << <<"P","N","G">> >>

FragmentMarkup ==
  << <<"\\","d","r","a","w"," ","(","0",",","0",")",";">> >>

TwoLineMarkup ==
  << <<"\\","f","o","o">>,
     <<"\\","b","a","r">> >>

FullDocumentMarkup ==
  << <<"\\","d","o","c","u","m","e","n","t","c","l","a","s","s","{","a","r","t","i","c","l","e","}">> >>

\* ------------------------------------------------------------------------
\* Log lines the compiler may write
\* ------------------------------------------------------------------------

BlankLine ==
  <<>>

SpacesLine ==
  <<" "," ">>

NoiseLine ==
  <<"(","x",")">>

UndefinedLine ==
  <<"!"," ","U","n","d","e","f","i","n","e","d"," ","c","o","n","t","r","o","l"," ","s","e","q","u","e","n","c","e",".">>

LNumLine ==
  <<"l",".","5"," ","\\","f">>

MissingLine ==
  <<"M","i","s","s","i","n","g"," ","$">>

PaddedLine ==
  <<" ","o","k"," ">>

IndentedErrorLine ==
  <<" "," ","E","r","r","o","r",":"," ","n","o">>

StderrLine ==
  <<"w","a","r","n">>

\* Lines generated in runs: two letters tell one line of a run from the next.
Code(k) ==
  << LowerAlphabet[((k - 1) \div 26) + 1], LowerAlphabet[((k - 1) % 26) + 1] >>

RunKinds == {"trig", "sametrig", "spaced", "noise", "mark", "blank"}

\* The k-th line of a run: "! ab" triggers, "(ab)" is noise, "l.ab" carries the
\* line-number token. A spaced run has a triggering line after every two
\* lines of noise, the first of them "! Undefined control sequence.".
RunLine(kind, k) ==
  CASE kind = "trig" -> KwBang \o Code(k)
    [] kind = "sametrig" -> KwBang \o Code(1)
    [] kind = "spaced" -> IF k % 3 # 0 THEN <<"(">> \o Code(k) \o <<")">>
                          ELSE IF k = 3 THEN UndefinedLine
                          ELSE KwBang \o Code(k)
    [] kind = "noise" -> <<"(">> \o Code(k) \o <<")">>
    [] kind = "mark" -> LineNumberToken \o Code(k)
    [] OTHER -> BlankLine

RunOf(kind, n) == [k \in 1..n |-> RunLine(kind, k)]

RunLens ==
  {n \in {10, 15, 16, 19, 20, 21, 27, 30, 50} : n < MaxRun} \cup {MaxRun}

LogVocabulary ==
  {BlankLine, SpacesLine, NoiseLine, UndefinedLine, LNumLine, MissingLine,
   PaddedLine, IndentedErrorLine}

ShortLogs == UNION {[1..n -> LogVocabulary] : n \in 1..MaxShort}

Edges == {<<>>} \cup {<<v>> : v \in LogVocabulary}

LongLogs ==
  {pre \o RunOf(kind, n) \o post :
     pre \in Edges, post \in Edges, kind \in RunKinds, n \in RunLens}

\* Logs of the extractor's specification.
\* Lines of an error section: the pointer under the error, the prompt, a
\* mention of "line" with a capital, a line-number token behind spaces.
CaretLine == <<" "," "," ","^">>

PromptLine == <<"?">>

CapitalWordLine == <<"o","n"," ","L","i","n","e"," ","5">>

IndentedLNumLine == <<" "," ","l",".","7"," ","x">>

MarkerLines == {CaretLine, PromptLine, CapitalWordLine, IndentedLNumLine}

\* A trigger, noise short of and past the 10 lines of the catch-all branch,
\* then one of MarkerLines.
MarkerLogs ==
  {<<UndefinedLine>> \o RunOf("noise", n) \o <<m>> :
     n \in {8, 10}, m \in MarkerLines}

ScanLogs == ShortLogs \cup LongLogs \cup MarkerLogs

\* Logs of the pipeline's specification.
PipelineLogs ==
  { <<BlankLine>>,
    <<NoiseLine, PaddedLine, BlankLine>>,
    <<NoiseLine, UndefinedLine, LNumLine, BlankLine>>,
    <<MissingLine, BlankLine, UndefinedLine>> }

\* Captured standard-error texts: empty, one line, MaxStderr lines.
Stderrs ==
  {EmptyText, <<StderrLine>>, [k \in 1..MaxStderr |-> StderrLine]}

\* ------------------------------------------------------------------------
\* Python values of the tikz_code argument
\* ------------------------------------------------------------------------

PyNone == [type |-> "NoneType", value |-> EmptyText]

PyStr(t) == [type |-> "str", value |-> t]

\* an int, by its decimal text
PyInt(t) == [type |-> "int", value |-> t]

\* bool(v)
Truthy(v) ==
  CASE v.type = "NoneType" -> FALSE
    [] v.type = "str" -> StrTruthy(v.value)
    [] OTHER -> v.value # << <<"0">> >>

\* isinstance(v, str)
IsStr(v) == v.type = "str"

ArgValues ==
  {PyNone, PyStr(EmptyText), PyInt(<< <<"0">> >>), PyInt(<< <<"7">> >>),
   PyStr(FragmentMarkup), PyStr(TwoLineMarkup), PyStr(FullDocumentMarkup)}

\* The arguments parameter: None, a dict without the key, a dict with it.
Arguments ==
  {[isNone |-> TRUE, hasKey |-> FALSE, tikz_code |-> PyNone],
   [isNone |-> FALSE, hasKey |-> FALSE, tikz_code |-> PyNone]}
  \cup {[isNone |-> FALSE, hasKey |-> TRUE, tikz_code |-> v] : v \in ArgValues}

\* arguments = {} when None, then arguments.get("tikz_code")
GetTikzCode(arguments) ==
  IF arguments.isNone \/ ~arguments.hasKey THEN PyNone ELSE arguments.tikz_code

ToolNames == {RenderTikz, OtherTool}

\* ------------------------------------------------------------------------
\* Program constants
\* ------------------------------------------------------------------------

\* all_lines[:20]
ReportLimit == 20

\* lines[-50:]
TailWindow == 50

\* last_lines[-15:]
TailKeep == 15

\* len(error_lines) < 10
CatchAllBudget == 10

\* range(max(0, i-2), i)
ContextBack == 2

\* ------------------------------------------------------------------------
\* State
\* ------------------------------------------------------------------------

VARIABLES
  run,    \* run[r]: the position and the locals of the r-th call of the handler
  fs,     \* the scratch directories that exist: name -> owner and files
  calls,  \* calls[r]: what the r-th call did outside itself, in order
  request \* request[r]: the tool name and the arguments of the r-th call

vars == <<run, fs, calls, request>>

NoRequest == [name |-> EmptyText, tikz_code |-> PyNone]

NoExc == [type |-> "none", msg |-> EmptyText]

Exc(type, msg) == [type |-> type, msg |-> msg]

\* A call that has not started; unset lists and texts are <<>>. artifact,
\* convert_returncode and raster keep what the external tools did: whether
\* the compiler left diagram.pdf, the exit status of convert, whether it left
\* diagram.png.
IdleRun ==
  [pc |-> "idle", tikz_code |-> EmptyText, temp_dir |-> 0,
   latex_content |-> EmptyText, returncode |-> 0, stderr |-> EmptyText,
   artifact |-> FALSE, lines |-> <<>>, i |-> 0, error_section |-> FALSE,
   error_lines |-> <<>>, context_lines |-> <<>>, error_details |-> <<>>,
   exc |-> NoExc, image_data |-> <<>>, outcome |-> <<>>,
   convert_returncode |-> 0, raster |-> FALSE]

TextContent(t) == [type |-> "text", text |-> t]

ImageContent(data) == [type |-> "image", text |-> data]

\* The handler has returned: its locals are gone, the outcome is with the caller.
Returned(outcome) == [IdleRun EXCEPT !.pc = "returned", !.outcome = outcome]

\* An exception left the handler: no outcome.
Crashed == [IdleRun EXCEPT !.pc = "crashed"]

Over(r) == run[r].pc \in {"returned", "crashed"}

Files(d) == fs[d].files

Exists(d, name) == d \in DOMAIN fs /\ name \in DOMAIN Files(d)

WithFile(fsv, d, name, content) ==
  [fsv EXCEPT ![d].files = (name :> content) @@ @]

Min(a, b) == IF a < b THEN a ELSE b

Max(a, b) == IF a > b THEN a ELSE b

\* s[:n]
Take(s, n) == SubSeq(s, 1, Min(n, Len(s)))

\* s[-n:]
LastN(s, n) == SubSeq(s, Max(1, Len(s) - n + 1), Len(s))

\* x in s, for a list s
InList(x, s) == \E k \in 1..Len(s) : s[k] = x

\* ------------------------------------------------------------------------
\* Document Normalizer
\* ------------------------------------------------------------------------

\* The marker looked for at the start of the markup only.
NormalizeAtStart(tikz_code) ==
  IF StartsWith(tikz_code[1], DocumentClass)
  THEN tikz_code
  ELSE TextCat(TextCat(TemplatePrefix, tikz_code), TemplateSuffix)

Normalize(tikz_code) ==
  IF TextContains(tikz_code, DocumentClass)
  THEN tikz_code
  ELSE TextCat(TextCat(TemplatePrefix, tikz_code), TemplateSuffix)

\* ------------------------------------------------------------------------
\* Log Diagnostic Extractor
\* ------------------------------------------------------------------------

\* any(keyword in line.lower() for keyword in [...])
Triggers(line) == \E keyword \in Keywords : Contains(Lower(line), keyword)

\* The back-fill without its membership test.
RECURSIVE BackFillNoDedup(_, _, _, _)
BackFillNoDedup(context_lines, lines, j, i) ==
  IF j >= i
  THEN context_lines
  ELSE LET s == Strip(lines[j])
       IN  BackFillNoDedup(IF s # <<>>
                           THEN Append(context_lines, s)
                           ELSE context_lines,
                           lines, j + 1, i)

\* for j in range(max(0, i-2), i): the lines before line i not yet in
\* context_lines, stripped
RECURSIVE BackFill(_, _, _, _)
BackFill(context_lines, lines, j, i) ==
  IF j >= i
  THEN context_lines
  ELSE LET s == Strip(lines[j])
       IN  BackFill(IF s # <<>> /\ ~InList(s, context_lines)
                    THEN Append(context_lines, s)
                    ELSE context_lines,
                    lines, j + 1, i)

\* The first three branches of the classification of a line of the section.
Marked(line) ==
  \/ StartsWith(line, LineNumberToken)
  \/ Contains(Lower(line), WordLine)
  \/ \E char \in PointChars : Contains(line, <<char>>)
  \/ StartsWith(Strip(line), Backslash)
  \/ Contains(Strip(line), Backslash)

\* The catch-all branch letting an eleventh line through.
CollectedUpToBudget(line, error_lines) ==
  Marked(line) \/ Len(error_lines) <= CatchAllBudget

\* Whether a non-empty, non-triggering line of the section is appended.
Collected(line, error_lines) ==
  Marked(line) \/ Len(error_lines) < CatchAllBudget

\* The two lists in the other order.
AllLinesErrorsFirst(context_lines, error_lines) ==
  error_lines \o <<Separator>> \o context_lines

\* context_lines + ['--- Error Details ---'] + error_lines
AllLines(context_lines, error_lines) ==
  context_lines \o <<Separator>> \o error_lines

\* '\n'.join(all_lines[:20])
Structured(context_lines, error_lines) ==
  Join(Take(AllLines(context_lines, error_lines), ReportLimit))

\* [line for line in lines[-50:] if line.strip()]
LastLines(lines) ==
  SelectSeq(LastN(lines, TailWindow), LAMBDA line : Strip(line) # <<>>)

\* last_lines[:15] instead of last_lines[-15:]
FallbackHead(lines) == Join(Take(LastLines(lines), TailKeep))

\* '\n'.join(last_lines[-15:])
FallbackTail(lines) == Join(LastN(LastLines(lines), TailKeep))

\* The captured standard error with no sentinel behind it.
StderrOnly(stderr, sentinel) == stderr

\* e.stderr or sentinel
StderrOr(stderr, sentinel) == IF StrTruthy(stderr) THEN stderr ELSE sentinel

\* "if context_lines and error_lines" instead of "or"
ReportWhenBoth(lines, context_lines, error_lines, stderr) ==
  LET details == IF context_lines # <<>> /\ error_lines # <<>>
                 THEN Structured(context_lines, error_lines)
                 ELSE FallbackTail(lines)
  IN  IF StrTruthy(details) THEN details ELSE StderrOr(stderr, MsgUnknownError)

\* error_details after lines 108-117
Report(lines, context_lines, error_lines, stderr) ==
  LET details == IF context_lines # <<>> \/ error_lines # <<>>
                 THEN Structured(context_lines, error_lines)
                 ELSE FallbackTail(lines)
  IN  IF StrTruthy(details) THEN details ELSE StderrOr(stderr, MsgUnknownError)

\* ------------------------------------------------------------------------
\* handle_call_tool and compile_tikz_to_image, step by step
\* ------------------------------------------------------------------------

Did(r, what) == calls' = [calls EXCEPT ![r] = Append(@, what)]

\* raise outside the with block: to the handler's except clause
RaiseOutside(r, exc) ==
  run' = [run EXCEPT ![r] = [@ EXCEPT !.exc = exc, !.pc = "handler_except"]]

\* raise inside the with block: the block is left first
RaiseInside(r, exc) ==
  run' = [run EXCEPT ![r] = [@ EXCEPT !.exc = exc, !.pc = "exit_with"]]

Goto(r, pc) == run' = [run EXCEPT ![r].pc = pc]

\* The check without its isinstance half.
ValidMarkupTruthyOnly(v) == Truthy(v)

\* not tikz_code or not isinstance(tikz_code, str), negated
ValidMarkup(v) == Truthy(v) /\ IsStr(v)

\* The event loop runs one call of the handler at a time (the handler never
\* awaits), and the calls come in order.
MayStart(r) ==
  /\ run[r].pc = "idle"
  /\ \A q \in Runs : q < r => Over(q)

\* Lines 172-185 and 211-217: the call arrives, the tool name and the markup
\* are checked.
Accept(r, names, argumentsOf) ==
  /\ \E name \in names, arguments \in argumentsOf :
       LET tikz_code == GetTikzCode(arguments)
       IN  /\ run' = [run EXCEPT ![r] =
             IF name # RenderTikz
             THEN Returned(<<TextContent(
                    TextCat(TextCat(MsgUnknownTool, name), MsgAvailableTools))>>)
             ELSE IF ~ValidMarkup(tikz_code)
             THEN Returned(<<TextContent(MsgValidation)>>)
             ELSE [@ EXCEPT !.pc = "probe_pdflatex",
                            !.tikz_code = tikz_code.value]]
          /\ request' = [request EXCEPT ![r] =
                [name |-> name, tikz_code |-> tikz_code]]
  /\ UNCHANGED <<fs, calls>>

\* A call of the handler, with any tool name and any arguments.
HandleCallTool(r) == MayStart(r) /\ Accept(r, ToolNames, Arguments)

\* What a probe leaves in the history of the call: the command when it ran,
\* the command marked as not found when subprocess.run raised.
Probed(command, ok) ==
  IF ok
  THEN command
  ELSE IF command = "pdflatex --version"
  THEN "pdflatex --version: not found"
  ELSE "convert --version: not found"

\* Lines 28-31
ProbePdflatex(r) ==
  /\ run[r].pc = "probe_pdflatex"
  /\ \E ok \in BOOLEAN :
       /\ Did(r, Probed("pdflatex --version", ok))
       /\ IF ok
          THEN Goto(r, "probe_convert")
          ELSE RaiseOutside(r, Exc("RuntimeError", MsgPdflatexMissing))
  /\ UNCHANGED <<fs, request>>

\* The second probe with its except clause dropped: the run goes on without
\* the conversion tool.
ProbeConvertIgnored(r) ==
  /\ run[r].pc = "probe_convert"
  /\ \E ok \in BOOLEAN :
       /\ Did(r, Probed("convert --version", ok))
       /\ Goto(r, "mkdtemp")
  /\ UNCHANGED <<fs, request>>

\* Lines 33-36
ProbeConvert(r) ==
  /\ run[r].pc = "probe_convert"
  /\ \E ok \in BOOLEAN :
       /\ Did(r, Probed("convert --version", ok))
       /\ IF ok
          THEN Goto(r, "mkdtemp")
          ELSE RaiseOutside(r, Exc("RuntimeError", MsgConvertMissing))
  /\ UNCHANGED <<fs, request>>

\* One fixed directory for every run, made with exist_ok: a run takes over
\* the directory another run is working in, with the files it holds.
EnterWithSharedName(r) ==
  /\ run[r].pc = "mkdtemp"
  /\ fs' = IF 1 \in DOMAIN fs
           THEN [fs EXCEPT ![1].owner = r]
           ELSE (1 :> [owner |-> r, files |-> <<>>]) @@ fs
  /\ run' = [run EXCEPT ![r] = [@ EXCEPT !.temp_dir = 1, !.pc = "normalize"]]
  /\ Did(r, "mkdtemp")
  /\ UNCHANGED request

\* Line 38: a directory under a name no existing directory has; tempfile
\* raises FileExistsError when it finds none.
EnterWith(r) ==
  /\ run[r].pc = "mkdtemp"
  /\ IF Dirs \subseteq DOMAIN fs
     THEN /\ RaiseOutside(r, Exc("FileExistsError", MsgNoTempName))
          /\ UNCHANGED <<fs, calls>>
     ELSE \E d \in Dirs \ DOMAIN fs :
            /\ fs' = (d :> [owner |-> r, files |-> <<>>]) @@ fs
            /\ run' = [run EXCEPT ![r] = [@ EXCEPT !.temp_dir = d,
                                                   !.pc = "normalize"]]
            /\ Did(r, "mkdtemp")
  /\ UNCHANGED request

\* Lines 41-56
NormalizeStep(r) ==
  /\ run[r].pc = "normalize"
  /\ run' = [run EXCEPT ![r] =
       [@ EXCEPT !.latex_content = Normalize(run[r].tikz_code),
                 !.pc = "write"]]
  /\ UNCHANGED <<fs, calls, request>>

\* Line 58: the write may fail (OSError)
WriteTex(r) ==
  /\ run[r].pc = "write"
  /\ \E ok \in BOOLEAN :
       IF ok
       THEN /\ fs' = WithFile(fs, run[r].temp_dir, "diagram.tex",
                              run[r].latex_content)
            /\ Goto(r, "compile")
       ELSE /\ RaiseInside(r, Exc("OSError", MsgNoSpace))
            /\ UNCHANGED fs
  /\ UNCHANGED <<calls, request>>

\* The compiler run without check=True: no exit status raises.
AfterCompileUnchecked(returncode) == "check_pdf"

\* check=True: a non-zero exit status raises CalledProcessError, caught at
\* line 67.
AfterCompile(returncode) == IF returncode = 0 THEN "check_pdf" ELSE "except"

\* The files the compiler leaves in the workspace.
CompilerOutput(fsv, d, hasLog, log, hasPdf) ==
  LET withLog == IF hasLog THEN WithFile(fsv, d, "diagram.log", log) ELSE fsv
  IN  IF hasPdf THEN WithFile(withLog, d, "diagram.pdf", PdfBytes) ELSE withLog

\* Lines 60-67: the compiler runs and returns, with one of these logs and
\* one of these captured standard errors.
CompileWith(r, logs, stderrs) ==
  /\ run[r].pc = "compile"
  /\ Did(r, "pdflatex")
  /\ \E returncode \in {0, 1}, hasPdf \in BOOLEAN, hasLog \in BOOLEAN,
        log \in logs, stderr \in stderrs :
       /\ hasLog \/ log = <<BlankLine>>
       /\ fs' = CompilerOutput(fs, run[r].temp_dir, hasLog, log, hasPdf)
       /\ run' = [run EXCEPT ![r] =
            [@ EXCEPT !.returncode = returncode, !.stderr = stderr,
                      !.artifact = hasPdf, !.pc = AfterCompile(returncode)]]
  /\ UNCHANGED request

Compile(r) == CompileWith(r, PipelineLogs, Stderrs)

\* Lines 68-72 and 118-119
LogExists(r) ==
  /\ run[r].pc = "except"
  /\ run' = [run EXCEPT ![r] =
       IF Exists(run[r].temp_dir, "diagram.log")
       THEN [@ EXCEPT !.lines = Split(Files(run[r].temp_dir)["diagram.log"]),
                      !.error_section = FALSE, !.error_lines = <<>>,
                      !.context_lines = <<>>, !.i = 1, !.pc = "scan"]
       ELSE [@ EXCEPT !.error_details = StderrOr(run[r].stderr, MsgNoLog),
                      !.pc = "raise"]]
  /\ UNCHANGED <<fs, calls, request>>

\* The empty line passed over: continue instead of break.
AtEmptyLineContinue(v, next) == [v EXCEPT !.i = v.i + 1, !.pc = next]

\* Lines 103-106: an empty line of the section ends the loop once an error
\* line has been collected.
AtEmptyLine(v, next) ==
  IF Len(v.error_lines) > 0
  THEN [v EXCEPT !.pc = "build"]
  ELSE [v EXCEPT !.i = v.i + 1, !.pc = next]

\* Lines 79-106: one iteration of the loop, on line i (counted from 1)
ScanLine(v) ==
  LET line == v.lines[v.i]
      line_clean == Strip(line)
      next == IF v.i = Len(v.lines) THEN "build" ELSE "scan"
  IN  IF Triggers(line)
      THEN [v EXCEPT !.error_section = TRUE,
                     !.error_lines = Append(@, line_clean),
                     !.context_lines =
                        BackFill(@, v.lines, Max(1, v.i - ContextBack), v.i),
                     !.i = v.i + 1, !.pc = next]
      ELSE IF ~v.error_section
      THEN [v EXCEPT !.i = v.i + 1, !.pc = next]
      ELSE IF line_clean # <<>>
      THEN [v EXCEPT !.error_lines = IF Collected(line, v.error_lines)
                                     THEN Append(@, line_clean)
                                     ELSE @,
                     !.i = v.i + 1, !.pc = next]
      ELSE AtEmptyLine(v, next)

ScanStep(r) ==
  /\ run[r].pc = "scan"
  /\ run' = [run EXCEPT ![r] = ScanLine(run[r])]
  /\ UNCHANGED <<fs, calls, request>>

\* Lines 108-117
BuildReport(r) ==
  /\ run[r].pc = "build"
  /\ run' = [run EXCEPT ![r] =
       [@ EXCEPT !.error_details = Report(run[r].lines, run[r].context_lines,
                                          run[r].error_lines, run[r].stderr),
                 !.pc = "raise"]]
  /\ UNCHANGED <<fs, calls, request>>

\* Line 121
RaiseCompileError(r) ==
  /\ run[r].pc = "raise"
  /\ RaiseInside(r, Exc("RuntimeError",
                        TextCat(MsgCompileFailed, run[r].error_details)))
  /\ UNCHANGED <<fs, calls, request>>

\* The existence check dropped.
PdfExistsUnchecked(d) == TRUE

\* The existence check made on the document instead of the artifact.
PdfExistsWrongFile(d) == Exists(d, "diagram.tex")

\* pdf_file.exists()
PdfExists(d) == Exists(d, "diagram.pdf")

\* A missing artifact answered by running the compiler again.
CheckPdfRetry(r) ==
  /\ run[r].pc = "check_pdf"
  /\ IF PdfExists(run[r].temp_dir)
     THEN Goto(r, "convert")
     ELSE IF Len(calls[r]) < 6
     THEN Goto(r, "compile")
     ELSE RaiseInside(r, Exc("RuntimeError", MsgNoPdf))
  /\ UNCHANGED <<fs, calls, request>>

\* Lines 123-125
CheckPdf(r) ==
  /\ run[r].pc = "check_pdf"
  /\ IF PdfExists(run[r].temp_dir)
     THEN Goto(r, "convert")
     ELSE RaiseInside(r, Exc("RuntimeError", MsgNoPdf))
  /\ UNCHANGED <<fs, calls, request>>

\* Lines 127-137: the conversion tool runs and returns.
Convert(r) ==
  /\ run[r].pc = "convert"
  /\ Did(r, "convert")
  /\ \E returncode \in {0, 1}, hasPng \in BOOLEAN :
       /\ fs' = IF hasPng
                THEN WithFile(fs, run[r].temp_dir, "diagram.png", PngBytes)
                ELSE fs
       /\ run' = [run EXCEPT ![r] =
            IF returncode = 0
            THEN [@ EXCEPT !.convert_returncode = returncode,
                           !.raster = hasPng, !.pc = "check_png"]
            ELSE [@ EXCEPT !.convert_returncode = returncode,
                           !.raster = hasPng,
                           !.exc = Exc("RuntimeError",
                                       TextCat(MsgConvertFailed,
                                               MsgCalledProcessError)),
                           !.pc = "exit_with"]]
  /\ UNCHANGED request

\* The exit status of the conversion tool trusted: no look at the file.
PngExistsUnchecked(d) == TRUE

\* png_file.exists()
PngExists(d) == Exists(d, "diagram.png")

\* Lines 139-140
CheckPng(r) ==
  /\ run[r].pc = "check_png"
  /\ IF PngExists(run[r].temp_dir)
     THEN Goto(r, "read_png")
     ELSE RaiseInside(r, Exc("RuntimeError", MsgNoPng))
  /\ UNCHANGED <<fs, calls, request>>

\* base64.b64encode(data).decode('utf-8'), kept symbolic
Base64(data) == <<<<"b", "6", "4", ":">> \o data[1]>>

\* Lines 142-144: the read may fail (OSError)
ReadPng(r) ==
  /\ run[r].pc = "read_png"
  /\ \E ok \in BOOLEAN :
       IF ok
       THEN run' = [run EXCEPT ![r] =
              [@ EXCEPT !.image_data =
                          Base64(Files(run[r].temp_dir)["diagram.png"]),
                        !.pc = "exit_with"]]
       ELSE RaiseInside(r, Exc("OSError", MsgNoSpace))
  /\ UNCHANGED <<fs, calls, request>>

\* A directory removed by hand at the end of the block only: an exception
\* skips the removal.
CleanupOnSuccess(fsv, d, exc) ==
  IF exc = NoExc THEN [x \in DOMAIN fsv \ {d} |-> fsv[x]] ELSE fsv

\* TemporaryDirectory.__exit__: the directory and all it holds are removed,
\* whether the block ended by return or by an exception.
Cleanup(fsv, d, exc) == [x \in DOMAIN fsv \ {d} |-> fsv[x]]

\* Line 38, leaving the with block
ExitWith(r) ==
  /\ run[r].pc = "exit_with"
  /\ fs' = Cleanup(fs, run[r].temp_dir, run[r].exc)
  /\ Did(r, "cleanup")
  /\ Goto(r, IF run[r].exc = NoExc THEN "handler_return" ELSE "handler_except")
  /\ UNCHANGED request

\* Lines 188-200
HandlerReturn(r) ==
  /\ run[r].pc = "handler_return"
  /\ run' = [run EXCEPT ![r] =
       Returned(<<TextContent(MsgRendered), ImageContent(run[r].image_data)>>)]
  /\ UNCHANGED <<fs, calls, request>>

\* except RuntimeError instead of except Exception.
CatchesRuntimeErrorOnly(exc) == exc.type = "RuntimeError"

\* except Exception: every exception the pipeline raises is an Exception.
Catches(exc) == exc.type \in {"RuntimeError", "OSError", "FileExistsError"}

\* Lines 202-209
HandlerExcept(r) ==
  /\ run[r].pc = "handler_except"
  /\ run' = [run EXCEPT ![r] =
       IF Catches(run[r].exc)
       THEN Returned(<<TextContent(TextCat(MsgCompilationError, run[r].exc.msg))>>)
       ELSE Crashed]
  /\ UNCHANGED <<fs, calls, request>>

\* ------------------------------------------------------------------------
\* Specifications
\* ------------------------------------------------------------------------

Init ==
  /\ run = [r \in Runs |-> IdleRun]
  /\ fs = <<>>
  /\ calls = [r \in Runs |-> <<>>]
  /\ request = [r \in Runs |-> NoRequest]

\* The steps of a call once it has started.
Pipeline(r) ==
  \/ ProbePdflatex(r)
  \/ ProbeConvert(r)
  \/ EnterWith(r)
  \/ NormalizeStep(r)
  \/ WriteTex(r)
  \/ Compile(r)
  \/ LogExists(r)
  \/ ScanStep(r)
  \/ BuildReport(r)
  \/ RaiseCompileError(r)
  \/ CheckPdf(r)
  \/ Convert(r)
  \/ CheckPng(r)
  \/ ReadPng(r)
  \/ ExitWith(r)
  \/ HandlerReturn(r)
  \/ HandlerExcept(r)

Next == \E r \in Runs : HandleCallTool(r) \/ Pipeline(r)

Spec == Init /\ [][Next]_vars

\* Every step of a started call is taken: the handler runs to its end once
\* each external tool has returned.
FairSpec == Spec /\ \A r \in Runs : WF_vars(Pipeline(r))

\* The extractor on its own: the first call has just caught the
\* CalledProcessError of line 67, with any log of ScanLogs (or none) in its
\* workspace and any captured standard error.
ScanStart(hasLog, log, stderr) ==
  /\ run = [r \in Runs |->
       IF r = 1
       THEN [IdleRun EXCEPT !.pc = "except",
                            !.tikz_code = FullDocumentMarkup,
                            !.temp_dir = 1,
                            !.latex_content = Normalize(FullDocumentMarkup),
                            !.returncode = 1, !.stderr = stderr]
       ELSE IdleRun]
  /\ fs = CompilerOutput(
            (1 :> [owner |-> 1,
                   files |-> ("diagram.tex" :> Normalize(FullDocumentMarkup))]),
            1, hasLog, log, FALSE)
  /\ calls = [r \in Runs |->
       IF r = 1
       THEN <<"pdflatex --version", "convert --version", "mkdtemp", "pdflatex">>
       ELSE <<>>]
  /\ request = [r \in Runs |->
       IF r = 1
       THEN [name |-> RenderTikz, tikz_code |-> PyStr(FullDocumentMarkup)]
       ELSE NoRequest]

InitScan ==
  \E stderr \in Stderrs :
    \/ \E log \in ScanLogs : ScanStart(TRUE, log, stderr)
    \/ ScanStart(FALSE, <<BlankLine>>, stderr)

NextScan ==
  \E r \in Runs :
    \/ LogExists(r)
    \/ ScanStep(r)
    \/ BuildReport(r)
    \/ RaiseCompileError(r)
    \/ ExitWith(r)
    \/ HandlerExcept(r)

SpecScan == InitScan /\ [][NextScan]_vars

\* The normalizer on its own: the first call has its scratch directory and is
\* about to build the document, for any markup of Markups.
DrawLine == <<"\\","d","r","a","w",";">>

MidLine ==
  <<" ","x","\\","d","o","c","u","m","e","n","t","c","l","a","s","s","{","a","}">>

NearMissLine == <<"\\","d","o","c","u","m","e","n","t","c","l","a","s">>

CapitalLine == <<"\\","D","o","c","u","m","e","n","t","c","l","a","s","s">>

MarkupVocabulary ==
  {BlankLine, DrawLine, DocumentClass, MidLine, NearMissLine, CapitalLine}

\* Every non-empty markup of at most MaxMarkup lines.
Markups ==
  {t \in UNION {[1..n -> MarkupVocabulary] : n \in 1..MaxMarkup} : StrTruthy(t)}

InitNorm ==
  \E tikz_code \in Markups :
    /\ run = [r \in Runs |->
         IF r = 1
         THEN [IdleRun EXCEPT !.pc = "normalize", !.tikz_code = tikz_code,
                              !.temp_dir = 1]
         ELSE IdleRun]
    /\ fs = (1 :> [owner |-> 1, files |-> <<>>])
    /\ calls = [r \in Runs |->
         IF r = 1
         THEN <<"pdflatex --version", "convert --version", "mkdtemp">>
         ELSE <<>>]
    /\ request = [r \in Runs |->
         IF r = 1
         THEN [name |-> RenderTikz, tikz_code |-> PyStr(tikz_code)]
         ELSE NoRequest]

NextNorm ==
  \E r \in Runs :
    \/ NormalizeStep(r)
    \/ WriteTex(r)
    \/ ExitWith(r)
    \/ HandlerExcept(r)

SpecNorm == InitNorm /\ [][NextNorm]_vars

\* Calls of the handler that overlap: what the pipeline does when its caller
\* does not wait for one run to end before it starts the next (worker threads,
\* several server processes on one machine). The inputs are few, the orders
\* of the steps are all there.
ConcRuns == 1..NumConc

ConcArguments ==
  {[isNone |-> FALSE, hasKey |-> TRUE, tikz_code |-> v] :
     v \in {PyStr(EmptyText), PyStr(FullDocumentMarkup)}}

ConcLogs == {<<UndefinedLine>>}

InitConc ==
  /\ run = [r \in ConcRuns |-> IdleRun]
  /\ fs = <<>>
  /\ calls = [r \in ConcRuns |-> <<>>]
  /\ request = [r \in ConcRuns |-> NoRequest]

ConcCall(r) ==
  /\ run[r].pc = "idle"
  /\ Accept(r, {RenderTikz}, ConcArguments)

ConcCompile(r) == CompileWith(r, ConcLogs, {EmptyText})

NextConc ==
  \E r \in ConcRuns :
    \/ ConcCall(r)
    \/ ProbePdflatex(r)
    \/ ProbeConvert(r)
    \/ EnterWith(r)
    \/ NormalizeStep(r)
    \/ WriteTex(r)
    \/ ConcCompile(r)
    \/ LogExists(r)
    \/ ScanStep(r)
    \/ BuildReport(r)
    \/ RaiseCompileError(r)
    \/ CheckPdf(r)
    \/ Convert(r)
    \/ CheckPng(r)
    \/ ReadPng(r)
    \/ ExitWith(r)
    \/ HandlerReturn(r)
    \/ HandlerExcept(r)

SpecConc == InitConc /\ [][NextConc]_vars

\* ------------------------------------------------------------------------
\* Properties of the pipeline
\* ------------------------------------------------------------------------

\* compile_tikz_to_image has ended, by return or by an exception, and the
\* handler still holds its locals.
Exited(r) == run[r].pc \in {"handler_return", "handler_except"}

\* The compiler was invoked on the document and returned.
Compiled(r) == InList("pdflatex", calls[r])

\* The conversion tool was invoked on the artifact.
Rasterized(r) == InList("convert", calls[r])

\* The exception is the compile failure of line 121.
IsCompileFailure(exc) ==
  /\ exc.type = "RuntimeError"
  /\ Len(exc.msg) >= Len(MsgCompileFailed)
  /\ SubSeq(exc.msg, 1, 2) = SubSeq(MsgCompileFailed, 1, 2)

OwnsNoDirectory(r) == \A d \in DOMAIN fs : fs[d].owner # r

C3_WorkspaceRemoved ==
  \A r \in Runs :
    (Exited(r) \/ Over(r))
      => /\ OwnsNoDirectory(r)
         /\ InList("mkdtemp", calls[r]) <=> InList("cleanup", calls[r])

\* A run that created a workspace and left the block by an unexpected error
\* (the OSError of a failed write) has ended, and the directory is gone.
C3_Witness ==
  \E r \in Runs :
    /\ run[r].pc = "handler_except" /\ run[r].exc.type = "OSError"
    /\ InList("mkdtemp", calls[r]) /\ OwnsNoDirectory(r)

IsSuccess(outcome) ==
  /\ Len(outcome) = 2
  /\ outcome[1] = TextContent(MsgRendered)
  /\ outcome[2].type = "image"

IsFailure(outcome) ==
  /\ Len(outcome) = 1
  /\ outcome[1].type = "text"
  /\ StrTruthy(outcome[1].text)

\* C4: every call, once it has begun, ends returned with exactly one
\* outcome, Success or Failure, which it then keeps; no exception leaves the
\* handler.
C4_EndsInOneOutcome ==
  /\ \A r \in Runs :
       (run[r].pc # "idle")
         ~> (run[r].pc = "returned"
             /\ IsSuccess(run[r].outcome) # IsFailure(run[r].outcome))
  /\ [][\A r \in Runs : run[r].pc = "returned" => run'[r] = run[r]]_vars
  /\ [](\A r \in Runs : run[r].pc # "crashed")

\* A call returned the Failure made from an unexpected OSError.
C4_Witness ==
  \E r \in Runs :
    /\ run[r].pc = "returned"
    /\ run[r].outcome = <<TextContent(TextCat(MsgCompilationError, MsgNoSpace))>>

\* C5: a run whose compiler exits zero without leaving diagram.pdf ends in
\* "PDF file was not generated" and never invokes the conversion tool.
C5_ZeroWithoutArtifact ==
  \A r \in Runs :
    (Compiled(r) /\ ~Over(r) /\ run[r].returncode = 0 /\ ~run[r].artifact)
      => /\ ~Rasterized(r)
         /\ Exited(r) => (run[r].pc = "handler_except"
                          /\ run[r].exc = Exc("RuntimeError", MsgNoPdf))

C5_Witness ==
  \E r \in Runs :
    /\ run[r].pc = "handler_except" /\ Compiled(r)
    /\ run[r].returncode = 0 /\ ~run[r].artifact
    /\ run[r].exc = Exc("RuntimeError", MsgNoPdf)

\* A diagnostic report was produced.
Reported(r) == run[r].error_details # <<>>

\* C6, as the specification states it: every compile attempt yields exactly
\* one of an accepted artifact and a diagnostic report.
C6_ExactlyOne ==
  \A r \in Runs :
    (Exited(r) /\ Compiled(r)) => (Rasterized(r) # Reported(r))

\* C6, amended: a compile attempt never yields both; it yields the report
\* exactly when the exit status is non-zero, the accepted artifact exactly
\* when the status is zero and diagram.pdf exists, and neither when the
\* status is zero and diagram.pdf is absent.
C6_AtMostOne ==
  \A r \in Runs :
    (Exited(r) /\ Compiled(r))
      => /\ Reported(r) <=> run[r].returncode # 0
         /\ Rasterized(r) <=> (run[r].returncode = 0 /\ run[r].artifact)

C6_Witness ==
  \E r \in Runs :
    /\ Exited(r) /\ Compiled(r)
    /\ run[r].returncode = 0 /\ ~run[r].artifact
    /\ ~Rasterized(r) /\ ~Reported(r)

\* The markup of the request is empty, absent or not a string.
BadMarkup(v) == v.type # "str" \/ v.value = EmptyText

\* C10: a render request with empty, absent or non-string markup is
\* answered with the validation error at once: no probe, no workspace, no
\* tool.
C10_RejectedBeforePipeline ==
  \A r \in Runs :
    (run[r].pc # "idle" /\ request[r].name = RenderTikz
       /\ BadMarkup(request[r].tikz_code))
      => /\ run[r].pc = "returned"
         /\ run[r].outcome = <<TextContent(MsgValidation)>>
         /\ calls[r] = <<>>
         /\ OwnsNoDirectory(r)

\* A request whose markup is the integer 7 was rejected.
C10_Witness ==
  \E r \in Runs :
    /\ run[r].pc = "returned"
    /\ request[r].name = RenderTikz
    /\ request[r].tikz_code = PyInt(<< <<"7">> >>)
    /\ run[r].outcome = <<TextContent(MsgValidation)>>

\* ------------------------------------------------------------------------
\* Properties of the diagnostic extractor
\* ------------------------------------------------------------------------

\* A line triggers the error section: it holds one of the four keywords,
\* whatever the case of its letters.
IsTriggering(line) ==
  \/ Contains(Lower(line), KwBang)
  \/ Contains(Lower(line), KwError)
  \/ Contains(Lower(line), KwUndefined)
  \/ Contains(Lower(line), KwMissing)

TriggerIndexes(lines) == {k \in 1..Len(lines) : IsTriggering(lines[k])}

FirstTrigger(lines) ==
  LET ti == TriggerIndexes(lines) IN CHOOSE k \in ti : \A j \in ti : k <= j

\* The log was read and the report built from it.
ReportBuilt(r) == run[r].lines # <<>> /\ Reported(r)

\* C2: the diagnostic report of a compile failure has at most 20 lines,
\* whichever of its three sources it comes from.
C2_ReportAtMost20 ==
  \A r \in Runs : Reported(r) => Len(run[r].error_details) <= ReportLimit

\* The handler turns the exception it caught into the Failure it returns.
HandlerReturns(r) == run[r].pc = "handler_except" /\ run'[r].pc = "returned"

HasUndefinedLine(text) == TextContains(text, UndefinedLine)

\* C7, as the specification states it: when the log holds the line
\* "! Undefined control sequence.", the Failure returned holds it too.
C7_UndefinedAlwaysReported ==
  [][\A r \in Runs :
       (HandlerReturns(r) /\ InList(UndefinedLine, run[r].lines))
         => HasUndefinedLine(run'[r].outcome[1].text)]_vars

\* C7, amended: when "! Undefined control sequence." is the first triggering
\* line of the log and the scan collects at most 18 context lines, the
\* Failure returned holds that line.
C7_FirstUndefinedReported ==
  [][\A r \in Runs :
       (/\ HandlerReturns(r)
        /\ Len(run[r].context_lines) <= ReportLimit - 2
        /\ TriggerIndexes(run[r].lines) # {}
        /\ run[r].lines[FirstTrigger(run[r].lines)] = UndefinedLine)
         => HasUndefinedLine(run'[r].outcome[1].text)]_vars

\* The line comes first of several triggering lines, after noise, with 18
\* context lines collected, and is in the message of the exception.
C7_Witness ==
  \E r \in Runs :
    /\ run[r].pc = "handler_except"
    /\ Cardinality(TriggerIndexes(run[r].lines)) > 1
    /\ FirstTrigger(run[r].lines) > 1
    /\ run[r].lines[FirstTrigger(run[r].lines)] = UndefinedLine
    /\ Len(run[r].context_lines) = ReportLimit - 2
    /\ HasUndefinedLine(run[r].exc.msg)

\* The report came from the structured extraction: a line triggered.
StructuredBuilt(r) == ReportBuilt(r) /\ run[r].error_lines # <<>>

\* C8, as the specification states it, for every log: the structured report
\* is the context lines, then the separator, then error lines, and the line
\* right after the separator is the first triggering line of the log (read
\* with the cut at 20 lines falling among the error lines, and the line
\* trimmed).
C8_SeparatorThenFirstTrigger ==
  \A r \in Runs :
    StructuredBuilt(r)
      => LET v == run[r]
             nc == Len(v.context_lines)
             rep == v.error_details
         IN  /\ Len(rep) >= nc + 2
             /\ SubSeq(rep, 1, nc) = v.context_lines
             /\ rep[nc + 1] = Separator
             /\ rep[nc + 2] = Strip(v.lines[FirstTrigger(v.lines)])

\* C8, amended: the structured report is the first 20 lines of the context
\* lines, the separator, the error lines; when there are at most 18 context
\* lines the separator is in it and the line after it is the first
\* triggering line of the log, trimmed.
C8_TruncatedConcatenation ==
  \A r \in Runs :
    StructuredBuilt(r)
      => LET v == run[r]
             nc == Len(v.context_lines)
             rep == v.error_details
         IN  /\ Len(rep) = Min(ReportLimit, nc + 1 + Len(v.error_lines))
             /\ \A n \in 1..Len(rep) :
                  rep[n] = IF n <= nc THEN v.context_lines[n]
                           ELSE IF n = nc + 1 THEN Separator
                           ELSE v.error_lines[n - nc - 1]
             /\ nc <= ReportLimit - 2
                  => /\ rep[nc + 1] = Separator
                     /\ rep[nc + 2] = Strip(v.lines[FirstTrigger(v.lines)])

\* A report cut at 20 lines that keeps its separator.
C8_Witness ==
  \E r \in Runs :
    /\ StructuredBuilt(r)
    /\ Len(run[r].context_lines) \in 1..(ReportLimit - 2)
    /\ Len(run[r].context_lines) + 1 + Len(run[r].error_lines) > ReportLimit
    /\ Len(run[r].error_details) = ReportLimit

\* The positions of the non-blank lines among positions from..Len(lines).
NonBlankFrom(lines, from) ==
  {k \in from..Len(lines) : Strip(lines[k]) # <<>>}

\* The j-th smallest member of a set of positions.
Nth(S, j) == CHOOSE k \in S : Cardinality({x \in S : x <= k}) = j

\* The report is the last min(15, |S|) of the lines at the positions S, in
\* their order and untrimmed.
IsTailOf(rep, lines, S) ==
  LET m == Cardinality(S)
      n == Min(TailKeep, m)
  IN  /\ Len(rep) = n
      /\ \A j \in 1..n : rep[j] = lines[Nth(S, m - n + j)]

\* The log was read and no line of it triggers.
NoTrigger(r) ==
  /\ ReportBuilt(r)
  /\ TriggerIndexes(run[r].lines) = {}

\* C9, as the specification states it: without a triggering line the report
\* is the final min(15, n) non-blank lines of the log, n counted over the
\* whole log (stated for n > 0; n = 0 is the standard-error fallback).
C9_TailOfWholeLog ==
  \A r \in Runs :
    (NoTrigger(r) /\ NonBlankFrom(run[r].lines, 1) # {})
      => IsTailOf(run[r].error_details, run[r].lines,
                  NonBlankFrom(run[r].lines, 1))

\* C9, amended: without a triggering line the report is the final
\* min(15, m) non-blank lines among the last 50 lines of the log, m counted
\* over those 50 lines only, with no separator; when m = 0 it is the
\* standard-error text, or the sentinel when that is empty.
C9_TailOfLastFifty ==
  \A r \in Runs :
    NoTrigger(r)
      => LET v == run[r]
             S == NonBlankFrom(v.lines, Max(1, Len(v.lines) - TailWindow + 1))
         IN  IF S # {}
             THEN /\ IsTailOf(v.error_details, v.lines, S)
                  /\ ~InList(Separator, v.error_details)
             ELSE v.error_details
                    = (IF v.stderr # EmptyText THEN v.stderr
                       ELSE MsgUnknownError)

\* A log of more than 50 lines whose non-blank lines are not all among the
\* last 50, and more than 15 of them are.
C9_Witness ==
  \E r \in Runs :
    /\ NoTrigger(r)
    /\ Len(run[r].lines) > TailWindow
    /\ Strip(run[r].lines[1]) # <<>>
    /\ Len(run[r].error_details) = TailKeep
    /\ Cardinality(NonBlankFrom(run[r].lines, 1)) > TailWindow


\* The failure the caller gets for an exception with this message.
FailureOutcome(msg) == <<TextContent(TextCat(MsgCompilationError, msg))>>

\* The run made this probe and the tool was not found.
ProbeFailed(r, command) == InList(Probed(command, FALSE), calls[r])

\* The run ended as the missing tool makes it end: nothing but the probes in
\* its history, no directory of its own, and the RuntimeError naming the tool
\* on its way to the caller or the failure carrying it returned.
EndsToolMissing(r, history, msg) ==
  /\ calls[r] = history
  /\ OwnsNoDirectory(r)
  /\ \/ run[r].pc = "handler_except" /\ run[r].exc = Exc("RuntimeError", msg)
     \/ run[r].pc = "returned" /\ run[r].outcome = FailureOutcome(msg)

\* C11: a scratch directory is created, and the compiler or the conversion
\* tool invoked on a document, only after both probes ran and found their
\* tools; a run whose probe of pdflatex or of convert fails ends in the
\* failure naming that tool, having created no directory and invoked neither
\* tool on a document.
C11_ProbesBeforeWorkspace ==
  \A r \in Runs :
    /\ (InList("mkdtemp", calls[r]) \/ ~OwnsNoDirectory(r)
          \/ Compiled(r) \/ Rasterized(r))
         => (Len(calls[r]) >= 3
             /\ SubSeq(calls[r], 1, 3) =
                  <<"pdflatex --version", "convert --version", "mkdtemp">>)
    /\ ProbeFailed(r, "pdflatex --version")
         => EndsToolMissing(r, <<Probed("pdflatex --version", FALSE)>>,
                            MsgPdflatexMissing)
    /\ ProbeFailed(r, "convert --version")
         => EndsToolMissing(r, <<"pdflatex --version",
                                 Probed("convert --version", FALSE)>>,
                            MsgConvertMissing)

C11_Witness ==
  \E r \in Runs :
    /\ ProbeFailed(r, "convert --version")
    /\ run[r].pc = "returned"
    /\ run[r].outcome = FailureOutcome(MsgConvertMissing)

\* The run is inside the with block: it holds a scratch directory.
Holds(r) ==
  run[r].pc \in {"normalize", "write", "compile", "except", "scan", "build",
                 "raise", "check_pdf", "convert", "check_png", "read_png",
                 "exit_with"}

\* The directory named d is not the same before and after the step: created,
\* removed, or changed in what it holds or in whose it is.
Touched(d) ==
  \/ d \in DOMAIN fs /\ d \notin DOMAIN fs'
  \/ d \notin DOMAIN fs /\ d \in DOMAIN fs'
  \/ d \in DOMAIN fs /\ d \in DOMAIN fs' /\ fs'[d] # fs[d]

\* The directory named d is, on both sides of the step where it exists, the
\* directory of run r, and when the step creates it, it is created empty.
StepOnOwn(r, d) ==
  /\ d \in DOMAIN fs => fs[d].owner = r /\ run[r].temp_dir = d
  /\ d \in DOMAIN fs' => fs'[d].owner = r /\ run'[r].temp_dir = d
  /\ d \notin DOMAIN fs => fs'[d].files = <<>>

\* A run that holds a directory holds one that exists and is its own, so no
\* two runs hold the same one.
OwnWorkspace ==
  \A r \in ConcRuns :
    Holds(r) => /\ run[r].temp_dir \in DOMAIN fs
                /\ fs[run[r].temp_dir].owner = r
                /\ \A q \in ConcRuns \ {r} :
                     Holds(q) => run[q].temp_dir # run[r].temp_dir

\* A step of run r leaves the other runs as they were and touches no
\* directory but the one r holds.
IsolatedStep ==
  \A r \in ConcRuns :
    (run'[r] # run[r] \/ calls'[r] # calls[r])
      => /\ \A q \in ConcRuns \ {r} :
              run'[q] = run[q] /\ calls'[q] = calls[q]
         /\ \A d \in Dirs : Touched(d) => StepOnOwn(r, d)

\* C12: under any interleaving of the steps of overlapping runs, a run that
\* holds a scratch directory holds one of its own that no other run holds;
\* every directory is created new and empty, so none is passed from an earlier
\* run to a later one; each step of a run writes, reads and removes files of
\* its own directory only and leaves the other runs untouched, so what a run
\* returns is computed from its own request and its own files.
C12_WorkspacesIsolated == []OwnWorkspace /\ [][IsolatedStep]_vars

C12_Witness ==
  \E r \in ConcRuns, q \in ConcRuns :
    /\ r # q /\ Holds(r) /\ Holds(q)
    /\ run[r].temp_dir # run[q].temp_dir
    /\ Exists(run[r].temp_dir, "diagram.log")
    /\ Exists(run[q].temp_dir, "diagram.tex")
    /\ ~Exists(run[q].temp_dir, "diagram.log")

\* How many times the run did this.
Count(r, what) == Cardinality({k \in 1..Len(calls[r]) : calls[r][k] = what})

\* The place of the first entry of the run's history that is this, 0 if none.
Place(r, what) ==
  IF InList(what, calls[r])
  THEN CHOOSE k \in 1..Len(calls[r]) :
         calls[r][k] = what /\ \A j \in 1..(k - 1) : calls[r][j] # what
  ELSE 0

\* C13: in a run the compiler and the conversion tool are each invoked at
\* most once; when the compiler is invoked the normalized document has been
\* written to diagram.tex of the run's directory; the conversion tool is
\* invoked only after the compiler has returned, with exit status 0 and
\* diagram.pdf found in the directory.
C13_StepsInOrderOnce ==
  \A r \in Runs :
    /\ Count(r, "pdflatex") <= 1
    /\ Count(r, "convert") <= 1
    /\ (Compiled(r) /\ Holds(r))
         => /\ run[r].latex_content = Normalize(run[r].tikz_code)
            /\ Exists(run[r].temp_dir, "diagram.tex")
            /\ Files(run[r].temp_dir)["diagram.tex"] = run[r].latex_content
            /\ Place(r, "mkdtemp") < Place(r, "pdflatex")
    /\ run[r].pc = "convert"
         => /\ Compiled(r) /\ ~Rasterized(r)
            /\ run[r].returncode = 0
            /\ Exists(run[r].temp_dir, "diagram.pdf")
    /\ Rasterized(r)
         => /\ Compiled(r)
            /\ Place(r, "pdflatex") < Place(r, "convert")
            /\ (Holds(r) => Exists(run[r].temp_dir, "diagram.pdf"))

C13_Witness ==
  \E r \in Runs :
    /\ run[r].pc = "check_png"
    /\ calls[r] = <<"pdflatex --version", "convert --version", "mkdtemp",
                    "pdflatex", "convert">>

\* The exception of line 137, carrying str(e) of the CalledProcessError.
IsConvertFailure(exc) ==
  exc = Exc("RuntimeError", TextCat(MsgConvertFailed, MsgCalledProcessError))

\* C14: a run that invoked the conversion tool goes on to read the raster
\* file, and ends in success, only when the tool exited with status 0 and
\* diagram.png is in the directory; with status 0 and no diagram.png it ends
\* in "PNG file was not generated"; with a non-zero status it ends in "Image
\* conversion failed: " followed by the error of the tool's invocation,
\* whether diagram.png is there or not.
C14_SuccessNeedsExitZeroAndRaster ==
  \A r \in Runs :
    (Rasterized(r) /\ ~Over(r) /\ run[r].pc # "check_png")
      => /\ (run[r].pc \in {"read_png", "handler_return"} \/ run[r].exc = NoExc)
              => (run[r].convert_returncode = 0 /\ run[r].raster)
         /\ (run[r].pc = "read_png"
              => Exists(run[r].temp_dir, "diagram.png"))
         /\ (run[r].convert_returncode = 0 /\ ~run[r].raster)
              => run[r].exc = Exc("RuntimeError", MsgNoPng)
         /\ run[r].convert_returncode # 0 => IsConvertFailure(run[r].exc)

C14_Witness ==
  \E r \in Runs :
    /\ run[r].pc = "handler_except"
    /\ Rasterized(r)
    /\ run[r].convert_returncode = 0 /\ ~run[r].raster
    /\ run[r].exc = Exc("RuntimeError", MsgNoPng)

\* The marker is somewhere in a line of the markup.
MentionsDocumentClass(t) ==
  \E k \in 1..Len(t) :
    \E j \in 1..Len(t[k]) :
      /\ j + Len(DocumentClass) - 1 <= Len(t[k])
      /\ SubSeq(t[k], j, j + Len(DocumentClass) - 1) = DocumentClass

\* The lines of the template before the markup, the lines of the markup as
\* they are, the lines of the template after it.
Wrapped(t) ==
  SubSeq(TemplatePrefix, 1, Len(TemplatePrefix) - 1)
    \o t \o SubSeq(TemplateSuffix, 2, Len(TemplateSuffix))

\* C15: for every markup, the document built and written to diagram.tex is
\* the markup itself when \documentclass occurs anywhere in it, and otherwise
\* the fixed lines of the template, the markup unchanged, and the fixed
\* closing lines, the same for every markup.
C15_NormalizedDocument ==
  \A r \in Runs :
    run[r].pc \in {"write", "compile"}
      => /\ run[r].latex_content =
              IF MentionsDocumentClass(run[r].tikz_code)
              THEN run[r].tikz_code
              ELSE Wrapped(run[r].tikz_code)
         /\ run[r].pc = "compile"
              => /\ Exists(run[r].temp_dir, "diagram.tex")
                 /\ Files(run[r].temp_dir)["diagram.tex"] = run[r].latex_content

C15_Witness ==
  \E r \in Runs :
    /\ run[r].pc = "compile"
    /\ run[r].tikz_code = <<DrawLine, MidLine>>
    /\ Files(run[r].temp_dir)["diagram.tex"] = <<DrawLine, MidLine>>

\* ------------------------------------------------------------------------
\* Properties of the scan loop
\* ------------------------------------------------------------------------

\* The loop is at a line, the line it is at.
Scanning(r) == run[r].pc = "scan"

CurrentLine(r) == run[r].lines[run[r].i]

\* The loop goes on to the next line, or ends after the last one.
Advances(r) ==
  /\ run'[r].i = run[r].i + 1
  /\ run'[r].pc = IF run[r].i = Len(run[r].lines) THEN "build" ELSE "scan"

SameAccumulators(r) ==
  /\ run'[r].error_lines = run[r].error_lines
  /\ run'[r].context_lines = run[r].context_lines

\* The step of the loop at an empty line: once an error line has been
\* collected the loop ends there, without moving on; before that it goes on
\* to the next line.
EmptyLineStep(r) ==
  (Scanning(r) /\ Strip(CurrentLine(r)) = <<>>)
    => /\ SameAccumulators(r)
       /\ IF run[r].error_lines # <<>>
          THEN run'[r].pc = "build" /\ run'[r].i = run[r].i
          ELSE Advances(r)

\* After the loop the accumulators stay as the loop left them until the
\* report is built and raised.
FrozenAfterScan(r) ==
  (run[r].pc \in {"build", "raise"} /\ run'[r].pc \in {"raise", "exit_with"})
    => /\ SameAccumulators(r)
       /\ run'[r].i = run[r].i

\* C16: the first empty line met once an error line has been collected ends
\* the scan: the loop stops at that line, and no line after it, triggering or
\* not, is ever looked at or added to context_lines or error_lines; an empty
\* line met before any error line was collected does not end the scan.
C16_EmptyLineEndsSection ==
  [][\A r \in Runs : EmptyLineStep(r) /\ FrozenAfterScan(r)]_vars

C16_Witness ==
  \E r \in Runs :
    /\ run[r].pc = "raise"
    /\ run[r].lines = <<BlankLine, MissingLine, SpacesLine, UndefinedLine>>
         \/ run[r].lines = <<MissingLine, BlankLine, UndefinedLine>>
    /\ run[r].error_lines = <<MissingLine>>
    /\ run[r].i < Len(run[r].lines)

\* The line carries one of the markers: it starts with "l.", mentions "line"
\* in any case, holds a caret or a question mark, or holds a backslash.
HasMarker(line) ==
  \/ (Len(line) >= 2 /\ line[1] = "l" /\ line[2] = ".")
  \/ Contains(Lower(line), WordLine)
  \/ \E k \in 1..Len(line) : line[k] \in {"^", "?", "\\"}

AppendsCurrentLine(r) ==
  run'[r].error_lines = Append(run[r].error_lines, Strip(CurrentLine(r)))

\* The step of the loop at a non-empty line inside the error section.
SectionLineStep(r) ==
  (Scanning(r) /\ run[r].error_section /\ Strip(CurrentLine(r)) # <<>>)
    => /\ Advances(r)
       /\ IF IsTriggering(CurrentLine(r)) \/ HasMarker(CurrentLine(r))
          THEN AppendsCurrentLine(r)
          ELSE IF Len(run[r].error_lines) < 10
          THEN AppendsCurrentLine(r)
          ELSE run'[r].error_lines = run[r].error_lines

\* C17: inside the error section a non-empty line that does not trigger and
\* carries no marker is appended to error_lines exactly when error_lines holds
\* fewer than 10 entries; a line with a marker and a triggering line are
\* appended whatever the length of error_lines, which therefore is not
\* bounded by 10.
C17_CatchAllBudget == [][\A r \in Runs : SectionLineStep(r)]_vars

C17_Witness ==
  \E r \in Runs :
    /\ run[r].pc = "build"
    /\ run[r].lines = <<UndefinedLine>> \o RunOf("noise", 15) \o <<LNumLine>>
    /\ run[r].error_lines =
         <<UndefinedLine>> \o RunOf("noise", 9) \o <<LNumLine>>

\* No entry of the list occurs twice in it.
NoDuplicate(s) == \A j \in 1..Len(s), k \in 1..Len(s) : s[j] = s[k] => j = k

\* The list with the line added behind it when the line is not empty and not
\* yet in the list.
WithContext(context_lines, s) ==
  IF s # <<>> /\ ~InList(s, context_lines)
  THEN Append(context_lines, s)
  ELSE context_lines

\* The line k places before the current one, trimmed; nothing when the log
\* does not reach that far back.
Before(r, k) ==
  IF run[r].i > k THEN Strip(run[r].lines[run[r].i - k]) ELSE <<>>

\* The step of the loop on context_lines: at a triggering line the two lines
\* before it are added, the farther first, each only when it is not empty and
\* not yet in context_lines; at any other line context_lines is left alone.
BackFillStep(r) ==
  Scanning(r)
    => run'[r].context_lines =
         IF IsTriggering(CurrentLine(r))
         THEN WithContext(WithContext(run[r].context_lines, Before(r, 2)),
                          Before(r, 1))
         ELSE run[r].context_lines

\* C18, as the specification states it: context_lines never holds a line
\* twice, and never holds a line that is also in error_lines.
C18_ContextDisjointFromErrors ==
  \A r \in Runs :
    run[r].pc \in {"scan", "build"}
      => /\ NoDuplicate(run[r].context_lines)
         /\ \A k \in 1..Len(run[r].context_lines) :
              ~InList(run[r].context_lines[k], run[r].error_lines)

\* C18, amended: the lines back-filled at a trigger are the two lines before
\* it, trimmed, each left out when it is empty or already in context_lines
\* (error_lines is not looked at); context_lines never holds a line twice.
C18_BackFillWithinContext ==
  /\ [](\A r \in Runs : NoDuplicate(run[r].context_lines))
  /\ [][\A r \in Runs : BackFillStep(r)]_vars

C18_Witness ==
  \E r \in Runs :
    /\ run[r].pc = "build"
    /\ run[r].lines = <<NoiseLine, UndefinedLine, MissingLine>>
    /\ run[r].context_lines = <<NoiseLine, UndefinedLine>>
    /\ run[r].error_lines = <<UndefinedLine, MissingLine>>

\* Every line of the last 50 of the log is empty or whitespace.
TailAllBlank(lines) ==
  \A k \in 1..Len(lines) :
    k > Len(lines) - 50 => Strip(lines[k]) = <<>>

\* The diagnostic is the captured standard error when there is some, and the
\* sentinel otherwise.
IsStderrOrSentinel(r, sentinel) ==
  run[r].error_details =
    IF run[r].stderr = EmptyText THEN sentinel ELSE run[r].stderr

\* C19: the diagnostic of a compile failure is never the empty text: when
\* diagram.log does not exist it is the captured standard error, or "LaTeX
\* compilation failed - no log file generated" when that is empty; when the
\* log yields nothing (no trigger, and only blank lines among its last 50) it
\* is the captured standard error, or "LaTeX compilation failed with unknown
\* error" when that is empty.
C19_DiagnosticNeverEmpty ==
  \A r \in Runs :
    run[r].pc = "raise"
      => /\ run[r].error_details # EmptyText
         /\ run[r].error_details # <<>>
         /\ ~Exists(run[r].temp_dir, "diagram.log")
              => IsStderrOrSentinel(r, MsgNoLog)
         /\ (/\ Exists(run[r].temp_dir, "diagram.log")
             /\ run[r].context_lines = <<>> /\ run[r].error_lines = <<>>
             /\ TailAllBlank(run[r].lines))
              => IsStderrOrSentinel(r, MsgUnknownError)

C19_Witness ==
  \E r \in Runs :
    /\ run[r].pc = "raise"
    /\ run[r].lines = <<BlankLine, SpacesLine>>
    /\ run[r].stderr = EmptyText
    /\ run[r].error_details = MsgUnknownError

====
